---- MODULE Spec2Model ----
(***************************************************************************)
(* Token and verification-code lifecycle of the authentication service:    *)
(* AuthService, PasswordService, TokenService, the auth routes and the     *)
(* three Mongo collections (users, verifications, tokens).                 *)
(*                                                                         *)
(* Collections are sequences in insertion order: findOne returns the first *)
(* matching document, deleteOne removes the first matching document.       *)
(* A user's _id is its index in users (users are never deleted).           *)
(* Time is counted in clock ticks; MsPerSec ticks make one JWT second.     *)
(***************************************************************************)
EXTENDS Integers, Sequences, FiniteSets, TLC

VARIABLES users, verifications, tokens, now, minted, resetCtr, resp, inflight,
          client, env, mailbox

vars == <<users, verifications, tokens, now, minted, resetCtr, resp, inflight,
          client, env, mailbox>>

\* what the handlers of the auth routes neither read nor write
others == <<client, env, mailbox>>

(***************************** bounds **************************************)
MaxUsers == 2
MaxTime == 2
MaxSessions == 2
MaxResets == 1
MaxForgot == 2
MaxRequests == 2
MaxTtl == 3
MaxClock == 2000
NumCodes == 2

(************************* configuration ***********************************)
\* Date.now() counts milliseconds, JWT iat/exp count seconds.
MsPerSec == 2
\* process.env.VERIFICATION_CODE_EXPIRES_IN, in ticks
VERIFICATION_CODE_EXPIRES_IN == 2
\* process.env.PASSWORD_RESET_EXPIRES_IN, in ticks
PASSWORD_RESET_EXPIRES_IN == 2
\* process.env.JWT_ACCESS_EXPIRES_IN, in seconds
JWT_ACCESS_EXPIRES_IN == 1
\* process.env.JWT_REFRESH_EXPIRES_IN, in seconds
JWT_REFRESH_EXPIRES_IN == 1

Usernames == {"alice", "bob"}
Emails == {"a@x.com", "B@x.com"}
Passwords == {"Secret123!", "NewPassword123!"}
\* The signup requests of the model: a username and an email as typed, with
\* the password every signup carries.  They cover a fresh signup, a taken
\* username with a free email and a taken email with a free username.
SignupForms == {<<"alice", "a@x.com">>, <<"bob", "B@x.com">>, <<"bob", "a@x.com">>}
SignupPasswords == {"Secret123!"}

\* VerificationType
EMAIL == "email"
PASSWORD_RESET == "password-reset"

\* crypto.randomBytes(3).toString('hex').toUpperCase(): one of 2^24 values,
\* drawn independently each time (values can repeat).
EmailCodes == {[bytes |-> 3, v |-> k] : k \in 1..NumCodes}
\* crypto.randomBytes(32).toString('hex'): 2^256 values, modelled as never
\* repeating (the k-th reset token ever generated is value k).
ResetTokens == {[bytes |-> 32, v |-> k] : k \in 1..MaxResets}
TokenValues == EmailCodes \cup ResetTokens

(************************** pure helpers ***********************************)
\* The least element of a set of positions, 0 when the set is empty
\* (the document findOne/deleteOne picks: the first match).
First(S) == IF S = {} THEN 0 ELSE CHOOSE i \in S : \A j \in S : i <= j

deleteAt(seq, i) ==
    IF i = 0 THEN seq
    ELSE SubSeq(seq, 1, i - 1) \o SubSeq(seq, i + 1, Len(seq))

\* UserSchema email: lowercase: true
Lower(e) == IF e = "B@x.com" THEN "b@x.com" ELSE e

\* bcrypt.hash / bcrypt.compare: the stored verifier is itself a string
Hash(p) == "$2b$" \o p
comparePassword(candidate, stored) == stored = Hash(candidate)

\* UserSchema.pre('save'): the password is hashed only when isModified
\* ('password'), i.e. when the assigned string differs from the stored one.
preSave(stored, assigned) ==
    IF assigned = stored THEN stored ELSE Hash(assigned)

\* mutant: isVerified defaulting to true
newUser_verified(username, email, password) ==
    [username |-> username, email |-> Lower(email),
     password |-> Hash(password), isVerified |-> TRUE]

\* User.create defaults
newUser(username, email, password) ==
    [username |-> username, email |-> Lower(email),
     password |-> Hash(password), isVerified |-> FALSE]

(****************************** JWT ****************************************)
NoToken == [sub |-> 0, username |-> "", type |-> "none", key |-> "none",
            iat |-> 0, exp |-> 0]

\* jwt.sign(payload, secret, {expiresIn}): the string is a function of the
\* payload, the key and the issue second.
jwtSign(sub, username, type, key, ttl, t) ==
    [sub |-> sub, username |-> username, type |-> type, key |-> key,
     iat |-> t \div MsPerSec, exp |-> (t \div MsPerSec) + ttl]

\* jwt.verify(token, secret): signature under this key, exp in the future
jwtVerify(tok, key, t) == tok.key = key /\ (t \div MsPerSec) < tok.exp

\* mutant: every access token signed for the first user
generateAccessToken_firstUser(userId, username, t) ==
    jwtSign(1, username, "access", "access_secret", JWT_ACCESS_EXPIRES_IN, t)

generateAccessToken(userId, username, t) ==
    jwtSign(userId, username, "access", "access_secret", JWT_ACCESS_EXPIRES_IN, t)

signRefreshToken(userId, username, t) ==
    jwtSign(userId, username, "refresh", "refresh_secret", JWT_REFRESH_EXPIRES_IN, t)

\* mutant: the Token document stored without its owner
refreshRecord_noOwner(userId, username, t) ==
    [userId |-> 0, refreshToken |-> signRefreshToken(userId, username, t),
     expires |-> t + JWT_REFRESH_EXPIRES_IN * MsPerSec]

\* the Token document generateRefreshToken stores
refreshRecord(userId, username, t) ==
    [userId |-> userId, refreshToken |-> signRefreshToken(userId, username, t),
     expires |-> t + JWT_REFRESH_EXPIRES_IN * MsPerSec]

\* mutant: the gate also asking the store for a session of the subject
verifyAccessToken_sessionBound(tok, t) ==
    /\ jwtVerify(tok, "access_secret", t)
    /\ tok.type = "access"
    /\ \E i \in DOMAIN tokens : tokens[i].userId = tok.sub

\* mutant: the token only decoded, neither signature nor type looked at
verifyAccessToken_decodeOnly(tok, t) == (t \div MsPerSec) < tok.exp

verifyAccessToken(tok, t) ==
    jwtVerify(tok, "access_secret", t) /\ tok.type = "access"

findTokenRecord(store, tok, t) ==
    First({i \in DOMAIN store : /\ store[i].userId = tok.sub
                                /\ store[i].refreshToken = tok
                                /\ store[i].expires > t})

verifyRefreshToken(tok, store, t) ==
    /\ jwtVerify(tok, "refresh_secret", t)
    /\ tok.type = "refresh"
    /\ findTokenRecord(store, tok, t) # 0

\* mutant: logout deletes nothing
deleteRefreshToken_none(store, tok) == store

\* Token.deleteOne({ refreshToken: token })
deleteRefreshToken(store, tok) ==
    deleteAt(store, First({i \in DOMAIN store : store[i].refreshToken = tok}))

\* mutant: deleteOne in place of deleteMany
deleteAllUserRefreshTokens_deleteOne(store, userId) ==
    deleteAt(store, First({i \in DOMAIN store : store[i].userId = userId}))

deleteAllUserRefreshTokens(store, userId) ==
    SelectSeq(store, LAMBDA r : r.userId # userId)

(***************************** queries *************************************)
findUserByUsername(us, username) ==
    First({i \in DOMAIN us : us[i].username = username})

\* mutant: the email lookup finding nobody
findUserByEmail_none(us, email) == 0

findUserByEmail(us, email) ==
    First({i \in DOMAIN us : us[i].email = Lower(email)})

findUserByUsernameOrEmail(us, id) ==
    First({i \in DOMAIN us : us[i].username = id \/ us[i].email = Lower(id)})

\* mutant: nothing deleted
deleteUserVerifications_none(vs, userId, type) == vs

\* mutant: the expires > now condition left out of the query
findVerification_anyExpiry(vs, token, type, t) ==
    First({i \in DOMAIN vs : vs[i].token = token /\ vs[i].type = type})

\* mutant: the type left out of the filter
findVerification_anyType(vs, token, type, t) ==
    First({i \in DOMAIN vs : vs[i].token = token /\ vs[i].expires > t})

\* mutant: the record of an already verified user is not found
findVerification_ownerUnverified(vs, token, type, t) ==
    First({i \in DOMAIN vs : /\ vs[i].token = token /\ vs[i].type = type
                             /\ vs[i].expires > t
                             /\ ~users[vs[i].userId].isVerified})

findVerification(vs, token, type, t) ==
    First({i \in DOMAIN vs : /\ vs[i].token = token
                             /\ vs[i].type = type
                             /\ vs[i].expires > t})

deleteUserVerifications(vs, userId, type) ==
    SelectSeq(vs, LAMBDA v : ~(v.userId = userId /\ v.type = type))

(**************************** responses ************************************)
\* What the last request returned: HTTP status, message and token fields of
\* the body, with what the request was: the principal the handler looked up
\* or acted on (0: none), the ephemeral token presented (verifyEmail,
\* resetPassword), the password presented (login), and what
\* emailService.sendVerificationEmail did during the request ("none": it
\* was not called, "sent": it returned true, "failed": it returned false).
\* Idle: the last step was not a request.
Resp(op, status, message, user, arg, at, rt) ==
    [op |-> op, status |-> status, message |-> message, user |-> user,
     arg |-> arg, password |-> "", verificationMail |-> "none",
     accessToken |-> at, refreshToken |-> rt]

\* arg of a request whose argument the response does not echo
NoArg == [bytes |-> 0, v |-> 0]

Idle == Resp("idle", 0, "", 0, NoArg, NoToken, NoToken)

\* The requests being handled at once.  A handler runs from one await to
\* the next without interruption; pc names the await it will resume from.
Requests == 1..MaxRequests

IdleReq == [op |-> "none", pc |-> "idle", username |-> "", email |-> "", user |-> 0]

\* The client of the end-to-end flow: how many requests it has made, what it
\* keeps from the responses (user id, the code mailed to it, its tokens) and
\* the status of each response so far.
NewClient == [step |-> 0, userId |-> 0, code |-> NoArg, accessToken |-> NoToken,
              refreshToken |-> NoToken, statuses |-> <<>>]

\* process.env: the lifetime of refresh tokens, a number and a unit
\* (JWT_REFRESH_EXPIRES_IN || '7d')
DefaultEnv == [JWT_REFRESH_EXPIRES_IN |-> [n |-> 7, unit |-> "d"]]

\* The mail of the verification codes: for each user id the address its
\* last code was sent to ("" when none was), and the addresses a code sent
\* there was consumed for.
NoMail == [to |-> <<>>, consumed |-> <<>>]

Init ==
    /\ client = NewClient
    /\ env = DefaultEnv
    /\ mailbox = NoMail
    /\ inflight = [q \in Requests |-> IdleReq]
    /\ users = <<>>
    /\ verifications = <<>>
    /\ tokens = <<>>
    /\ now = 0
    /\ minted = {}
    /\ resetCtr = 0
    /\ resp = Idle

(***************************** signup **************************************)
\* mutant: nothing kept when the verification email could not be sent
signup_rollback(username, email, password, code, sent) ==
    /\ ~sent
    /\ findUserByUsername(users, username) = 0
    /\ findUserByEmail(users, email) = 0
    /\ resp' = [Resp("signup", 201,
                     "User registered successfully. Please verify your email.",
                     Len(users) + 1, NoArg, NoToken, NoToken)
                    EXCEPT !.verificationMail = "failed"]
    /\ UNCHANGED <<users, verifications, tokens, now, minted, resetCtr, inflight>>

\* sent: what emailService.sendVerificationEmail returned
signup(username, email, password, code, sent) ==
    IF findUserByUsername(users, username) # 0 THEN
        /\ resp' = Resp("signup", 400, "Username already exists", 0, NoArg, NoToken, NoToken)
        /\ UNCHANGED <<users, verifications, tokens, now, minted, resetCtr, inflight>>
    ELSE IF findUserByEmail(users, email) # 0 THEN
        /\ resp' = Resp("signup", 400, "Email already exists", 0, NoArg, NoToken, NoToken)
        /\ UNCHANGED <<users, verifications, tokens, now, minted, resetCtr, inflight>>
    ELSE
        /\ Len(users) < MaxUsers
        /\ users' = Append(users, newUser(username, email, password))
        /\ verifications' = Append(verifications,
               [userId |-> Len(users) + 1, type |-> EMAIL, token |-> code,
                expires |-> now + VERIFICATION_CODE_EXPIRES_IN])
        /\ resp' = [Resp("signup", 201,
                             "User registered successfully. Please verify your email.",
                             Len(users) + 1, NoArg, NoToken, NoToken)
                        EXCEPT !.verificationMail = IF sent THEN "sent" ELSE "failed"]
        /\ UNCHANGED <<tokens, now, minted, resetCtr, inflight>>

(*************************** verifyEmail ***********************************)
verifyEmail(token) ==
    LET i == findVerification(verifications, token, EMAIL, now) IN
    IF i = 0 THEN
        /\ resp' = Resp("verifyEmail", 400, "Email verification failed", 0, token, NoToken, NoToken)
        /\ UNCHANGED <<users, verifications, tokens, now, minted, resetCtr, inflight>>
    ELSE
        /\ users' = [users EXCEPT ![verifications[i].userId].isVerified = TRUE]
        /\ verifications' = deleteAt(verifications, i)
        /\ resp' = Resp("verifyEmail", 200, "Email verified successfully",
                        verifications[i].userId, token, NoToken, NoToken)
        /\ UNCHANGED <<tokens, now, minted, resetCtr, inflight>>

(********************** resendVerificationCode *****************************)
\* mutant: the isVerified check left out
resendVerificationCode_noVerifiedCheck(email, code, sent) ==
    LET u == findUserByEmail(users, email) IN
    /\ u # 0
    /\ verifications' = Append(deleteUserVerifications(verifications, u, EMAIL),
           [userId |-> u, type |-> EMAIL, token |-> code,
            expires |-> now + VERIFICATION_CODE_EXPIRES_IN])
    /\ resp' = [Resp("resendVerification", IF sent THEN 200 ELSE 400,
                     "Verification code resent", u, NoArg, NoToken, NoToken)
                    EXCEPT !.verificationMail = IF sent THEN "sent" ELSE "failed"]
    /\ UNCHANGED <<users, tokens, now, minted, resetCtr, inflight>>

\* sent: what emailService.sendVerificationEmail returned
resendVerificationCode(email, code, sent) ==
    LET u == findUserByEmail(users, email) IN
    IF u = 0 \/ users[u].isVerified THEN
        /\ resp' = Resp("resendVerification", 400, "Failed to resend verification code",
                        0, NoArg, NoToken, NoToken)
        /\ UNCHANGED <<users, verifications, tokens, now, minted, resetCtr, inflight>>
    ELSE
        /\ verifications' = Append(deleteUserVerifications(verifications, u, EMAIL),
               [userId |-> u, type |-> EMAIL, token |-> code,
                expires |-> now + VERIFICATION_CODE_EXPIRES_IN])
        /\ resp' = IF sent
                   THEN [Resp("resendVerification", 200, "Verification code resent",
                              u, NoArg, NoToken, NoToken)
                             EXCEPT !.verificationMail = "sent"]
                   ELSE [Resp("resendVerification", 400, "Failed to resend verification code",
                              u, NoArg, NoToken, NoToken)
                             EXCEPT !.verificationMail = "failed"]
        /\ UNCHANGED <<users, tokens, now, minted, resetCtr, inflight>>

(****************************** login **************************************)
\* mutant: the isVerified check left out
loginCheck_noVerifiedCheck(us, u, password) ==
    IF u = 0 THEN "Invalid credentials"
    ELSE IF ~comparePassword(password, us[u].password) THEN "Invalid credentials"
    ELSE "Login successful"

\* mutant: the password compared before isVerified is looked at
loginCheck_passwordFirst(us, u, password) ==
    IF u = 0 THEN "Invalid credentials"
    ELSE IF ~comparePassword(password, us[u].password) THEN "Invalid credentials"
    ELSE IF ~us[u].isVerified THEN "Email not verified"
    ELSE "Login successful"

\* The message AuthService.login returns for a looked-up user (0: not found)
\* and a presented password; "Login successful" when it goes on to mint.
loginCheck(us, u, password) ==
    IF u = 0 THEN "Invalid credentials"
    ELSE IF ~us[u].isVerified THEN "Email not verified"
    ELSE IF ~comparePassword(password, us[u].password) THEN "Invalid credentials"
    ELSE "Login successful"

login(usernameOrEmail, password) ==
    LET u == findUserByUsernameOrEmail(users, usernameOrEmail)
        message == loginCheck(users, u, password)
    IN
    IF message # "Login successful" THEN
        /\ resp' = [Resp("login", 401, message, u, NoArg, NoToken, NoToken)
                        EXCEPT !.password = password]
        /\ UNCHANGED <<users, verifications, tokens, now, minted, resetCtr, inflight>>
    ELSE
        /\ Len(tokens) < MaxSessions
        /\ tokens' = Append(tokens, refreshRecord(u, users[u].username, now))
        /\ minted' = minted \cup {generateAccessToken(u, users[u].username, now),
                                  signRefreshToken(u, users[u].username, now)}
        /\ resp' = [Resp("login", 200, message, u, NoArg,
                             generateAccessToken(u, users[u].username, now),
                             signRefreshToken(u, users[u].username, now))
                        EXCEPT !.password = password]
        /\ UNCHANGED <<users, verifications, now, resetCtr, inflight>>

(*************************** refreshToken **********************************)
refreshToken(r) ==
    IF ~verifyRefreshToken(r, tokens, now) THEN
        /\ resp' = Resp("refresh", 401, "Invalid refresh token", 0, NoArg, NoToken, NoToken)
        /\ UNCHANGED <<users, verifications, tokens, now, minted, resetCtr, inflight>>
    ELSE
        /\ minted' = minted \cup {generateAccessToken(r.sub, r.username, now)}
        /\ resp' = Resp("refresh", 200, "Token refreshed successfully", r.sub, NoArg,
                        generateAccessToken(r.sub, r.username, now), NoToken)
        /\ UNCHANGED <<users, verifications, tokens, now, resetCtr, inflight>>

(************************* logout, logoutAll *******************************)
logout(r) ==
    /\ tokens' = deleteRefreshToken(tokens, r)
    /\ resp' = Resp("logout", 200, "Logout successful", 0, NoArg, NoToken, NoToken)
    /\ UNCHANGED <<users, verifications, now, minted, resetCtr, inflight>>

\* router.post('/logout-all', authenticate, ...): a is the presented access token
logoutAll(a) ==
    IF ~verifyAccessToken(a, now) THEN
        /\ resp' = Resp("logoutAll", 401, "Invalid or expired token", 0, NoArg, NoToken, NoToken)
        /\ UNCHANGED <<users, verifications, tokens, now, minted, resetCtr, inflight>>
    ELSE
        /\ tokens' = deleteAllUserRefreshTokens(tokens, a.sub)
        /\ resp' = Resp("logoutAll", 200, "Logged out from all devices", a.sub, NoArg,
                        NoToken, NoToken)
        /\ UNCHANGED <<users, verifications, now, minted, resetCtr, inflight>>

(************************ generateResetToken *******************************)
\* mutant: an unknown email reported to the caller
generateResetToken_reveal(email) ==
    /\ findUserByEmail(users, email) = 0
    /\ resp' = Resp("forgotPassword", 404, "User not found", 0, NoArg, NoToken, NoToken)
    /\ UNCHANGED <<users, verifications, tokens, now, minted, resetCtr, inflight>>

generateResetToken(email) ==
    LET u == findUserByEmail(users, email) IN
    /\ resp' = Resp("forgotPassword", 200,
                    "If your email exists in our system, you will receive a password reset link",
                    0, NoArg, NoToken, NoToken)
    /\ IF u = 0 THEN
           UNCHANGED <<users, verifications, tokens, now, minted, resetCtr, inflight>>
       ELSE
           /\ resetCtr' = resetCtr + 1
           /\ verifications' = Append(deleteUserVerifications(verifications, u, PASSWORD_RESET),
                  [userId |-> u, type |-> PASSWORD_RESET,
                   token |-> [bytes |-> 32, v |-> resetCtr + 1],
                   expires |-> now + PASSWORD_RESET_EXPIRES_IN])
           /\ UNCHANGED <<users, tokens, now, minted, inflight>>

(*************************** resetPassword *********************************)
resetPassword(token, newPassword) ==
    LET i == findVerification(verifications, token, PASSWORD_RESET, now) IN
    IF i = 0 THEN
        /\ resp' = Resp("resetPassword", 400, "Password reset failed", 0, token, NoToken, NoToken)
        /\ UNCHANGED <<users, verifications, tokens, now, minted, resetCtr, inflight>>
    ELSE
        /\ users' = [users EXCEPT ![verifications[i].userId].password =
                         preSave(@, newPassword)]
        /\ verifications' = deleteAt(verifications, i)
        /\ resp' = Resp("resetPassword", 200, "Password reset successful",
                        verifications[i].userId, token, NoToken, NoToken)
        /\ UNCHANGED <<tokens, now, minted, resetCtr, inflight>>

(************************ clock and TTL indexes ****************************)
Tick ==
    /\ now < MaxTime
    /\ now' = now + 1
    /\ resp' = Idle
    /\ UNCHANGED <<users, verifications, tokens, minted, resetCtr, inflight>>

\* index({expires: 1}, {expireAfterSeconds: 0}): the TTL monitor removes a
\* document some time after its expires instant has passed.
ttlVerifications ==
    \E i \in DOMAIN verifications :
        /\ verifications[i].expires <= now
        /\ verifications' = deleteAt(verifications, i)
        /\ resp' = Idle
        /\ UNCHANGED <<users, tokens, now, minted, resetCtr, inflight>>

ttlTokens ==
    \E i \in DOMAIN tokens :
        /\ tokens[i].expires <= now
        /\ tokens' = deleteAt(tokens, i)
        /\ resp' = Idle
        /\ UNCHANGED <<users, verifications, now, minted, resetCtr, inflight>>

\* the bound on reset tokens: a forgot-password request that would draw
\* one more than max reset tokens is left out
canReset(email, max) == findUserByEmail(users, email) # 0 => resetCtr < max

Next ==
    \/ \E f \in SignupForms, p \in SignupPasswords, c \in EmailCodes,
          sent \in BOOLEAN : signup(f[1], f[2], p, c, sent) /\ UNCHANGED others
    \/ \E t \in TokenValues : verifyEmail(t) /\ UNCHANGED others
    \/ \E e \in Emails, c \in EmailCodes, sent \in BOOLEAN :
           resendVerificationCode(e, c, sent) /\ UNCHANGED others
    \/ \E id \in Usernames \cup Emails, p \in Passwords : login(id, p) /\ UNCHANGED others
    \/ \E r \in minted : refreshToken(r) /\ UNCHANGED others
    \/ \E r \in minted : logout(r) /\ UNCHANGED others
    \/ \E a \in minted : logoutAll(a) /\ UNCHANGED others
    \/ \E e \in Emails : canReset(e, MaxResets) /\ generateResetToken(e) /\ UNCHANGED others
    \/ \E t \in TokenValues, p \in Passwords : resetPassword(t, p) /\ UNCHANGED others
    \/ Tick /\ UNCHANGED others
    \/ ttlVerifications /\ UNCHANGED others
    \/ ttlTokens /\ UNCHANGED others

Spec == Init /\ [][Next]_vars

(***************************** access gate *********************************)
\* The Authorization header as authenticate reads it: a scheme and what
\* follows it (startsWith('Bearer '), substring(7)).  Node's HTTP parser
\* strips trailing blanks from a header value, so a Bearer header always
\* carries a non-empty string.  NoHeader: no Authorization header.
NoHeader == [scheme |-> "none", credentials |-> NoToken]

\* a string that is no token of this service
Forged == [sub |-> 1, username |-> "alice", type |-> "access", key |-> "forged",
           iat |-> 0, exp |-> MaxTime + 1]

\* the strings a client can present: tokens it was given, or its own
Presentable == minted \cup {Forged}

Headers ==
    {NoHeader} \cup {[scheme |-> sc, credentials |-> tok] :
                        sc \in {"Bearer", "Basic"}, tok \in Presentable}

\* req.cookies.accessToken; NoToken: no such cookie
Cookies == {NoToken} \cup Presentable

\* mutant: the cookie looked at before the header
extractToken_cookieFirst(header, cookie) ==
    IF cookie # NoToken THEN cookie
    ELSE IF header.scheme = "Bearer" THEN header.credentials
    ELSE NoToken

extractToken(header, cookie) ==
    IF header.scheme = "Bearer" THEN header.credentials
    ELSE IF cookie # NoToken THEN cookie
    ELSE NoToken

\* the error the middleware answers with, "next" when it calls next()
authenticate(header, cookie, t) ==
    LET token == extractToken(header, cookie) IN
    IF token = NoToken THEN "Authentication required"
    ELSE IF ~verifyAccessToken(token, t) THEN "Invalid or expired token"
    ELSE "next"

\* router.get('/dashboard', authenticate, ...); the response is kept with
\* the header and the cookie of the request
dashboard(header, cookie) ==
    LET answer == authenticate(header, cookie, now) IN
    /\ resp' = [op |-> "dashboard",
                status |-> IF answer = "next" THEN 200 ELSE 401,
                message |-> IF answer = "next"
                            THEN "This is protected content for your dashboard"
                            ELSE answer,
                user |-> IF answer = "next" THEN extractToken(header, cookie).sub ELSE 0,
                header |-> header, cookie |-> cookie]
    /\ UNCHANGED <<users, verifications, tokens, now, minted, resetCtr, inflight>>

\* One account signing up, verifying and logging in, and requests to a
\* protected route carrying any header and cookie.
NextGate ==
    \/ \E c \in EmailCodes : signup("alice", "a@x.com", "Secret123!", c, TRUE) /\ UNCHANGED others
    \/ \E t \in EmailCodes : verifyEmail(t) /\ UNCHANGED others
    \/ login("alice", "Secret123!") /\ UNCHANGED others
    \/ \E h \in Headers, c \in Cookies : dashboard(h, c) /\ UNCHANGED others
    \/ Tick /\ UNCHANGED others

SpecGate == Init /\ [][NextGate]_vars

(************** concurrent signup and profile update ***********************)
\* the emails concurrent requests carry, two of them equal but for case
ConcEmails == {"a@x.com", "B@x.com", "b@x.com"}

\* absent username / email in the body of PUT /profile
Absent == ""

\* mutant: no unique index on the users collection
uniqueIndexViolated_noIndex(us, self, username, email) == FALSE

\* unique: true on username and on email: the store refuses to write a
\* document (self: its _id, 0 for an insert) whose username or stored email
\* another document has (E11000)
uniqueIndexViolated(us, self, username, email) ==
    \E i \in DOMAIN us :
        i # self /\ (us[i].username = username \/ us[i].email = email)

\* the handler of request q answers and ends
respond(q, r) ==
    /\ resp' = r
    /\ inflight' = [inflight EXCEPT ![q] = IdleReq]

\* the handler of request q goes on to its next await
goto(q, pc) == inflight' = [inflight EXCEPT ![q].pc = pc]

beginSignup(q, username, email) ==
    /\ inflight[q].pc = "idle"
    /\ inflight' = [inflight EXCEPT ![q] =
           [op |-> "signup", pc |-> "findUsername", username |-> username,
            email |-> email, user |-> 0]]
    /\ UNCHANGED <<users, verifications, tokens, now, minted, resetCtr, resp>>

\* await User.findOne({ username })
signupFindUsername(q) ==
    /\ inflight[q].op = "signup" /\ inflight[q].pc = "findUsername"
    /\ IF findUserByUsername(users, inflight[q].username) # 0
       THEN respond(q, Resp("signup", 400, "Username already exists", 0, NoArg, NoToken, NoToken))
       ELSE goto(q, "findEmail") /\ UNCHANGED resp
    /\ UNCHANGED <<users, verifications, tokens, now, minted, resetCtr>>

\* await User.findOne({ email })
signupFindEmail(q) ==
    /\ inflight[q].op = "signup" /\ inflight[q].pc = "findEmail"
    /\ IF findUserByEmail(users, inflight[q].email) # 0
       THEN respond(q, Resp("signup", 400, "Email already exists", 0, NoArg, NoToken, NoToken))
       ELSE goto(q, "create") /\ UNCHANGED resp
    /\ UNCHANGED <<users, verifications, tokens, now, minted, resetCtr>>

\* await User.create({...}); a rejected insert throws into the catch block
signupCreateUser(q) ==
    /\ inflight[q].op = "signup" /\ inflight[q].pc = "create"
    /\ IF uniqueIndexViolated(users, 0, inflight[q].username, Lower(inflight[q].email))
       THEN /\ respond(q, Resp("signup", 400, "Registration failed", 0, NoArg, NoToken, NoToken))
            /\ UNCHANGED users
       ELSE /\ Len(users) < MaxUsers
            /\ users' = Append(users, newUser(inflight[q].username, inflight[q].email,
                                               "Secret123!"))
            /\ inflight' = [inflight EXCEPT ![q].pc = "createVerification",
                                            ![q].user = Len(users) + 1]
            /\ UNCHANGED resp
    /\ UNCHANGED <<verifications, tokens, now, minted, resetCtr>>

\* await Verification.create, await sendVerificationEmail, return
signupFinish(q, code, sent) ==
    /\ inflight[q].op = "signup" /\ inflight[q].pc = "createVerification"
    /\ verifications' = Append(verifications,
           [userId |-> inflight[q].user, type |-> EMAIL, token |-> code,
            expires |-> now + VERIFICATION_CODE_EXPIRES_IN])
    /\ respond(q, [Resp("signup", 201,
                        "User registered successfully. Please verify your email.",
                        inflight[q].user, NoArg, NoToken, NoToken)
                       EXCEPT !.verificationMail = IF sent THEN "sent" ELSE "failed"])
    /\ UNCHANGED <<users, tokens, now, minted, resetCtr>>

\* PUT /profile passed authenticate for principal u
beginProfile(q, u, username, email) ==
    /\ inflight[q].pc = "idle"
    /\ u \in DOMAIN users
    /\ inflight' = [inflight EXCEPT ![q] =
           [op |-> "updateProfile", pc |-> "findUsername", username |-> username,
            email |-> email, user |-> u]]
    /\ UNCHANGED <<users, verifications, tokens, now, minted, resetCtr, resp>>

\* if (username) await User.findOne({ username, _id: { $ne: userId } })
profileFindUsername(q) ==
    /\ inflight[q].op = "updateProfile" /\ inflight[q].pc = "findUsername"
    /\ IF /\ inflight[q].username # Absent
          /\ \E i \in DOMAIN users :
                 i # inflight[q].user /\ users[i].username = inflight[q].username
       THEN respond(q, Resp("updateProfile", 400, "Username already taken", inflight[q].user,
                            NoArg, NoToken, NoToken))
       ELSE goto(q, "findEmail") /\ UNCHANGED resp
    /\ UNCHANGED <<users, verifications, tokens, now, minted, resetCtr>>

\* if (email) await User.findOne({ email, _id: { $ne: userId } })
profileFindEmail(q) ==
    /\ inflight[q].op = "updateProfile" /\ inflight[q].pc = "findEmail"
    /\ IF /\ inflight[q].email # Absent
          /\ \E i \in DOMAIN users :
                 i # inflight[q].user /\ users[i].email = Lower(inflight[q].email)
       THEN respond(q, Resp("updateProfile", 400, "Email already taken", inflight[q].user,
                            NoArg, NoToken, NoToken))
       ELSE goto(q, "update") /\ UNCHANGED resp
    /\ UNCHANGED <<users, verifications, tokens, now, minted, resetCtr>>

\* mutant: a changed email making the principal unverified again
updatedUser_unverify(user, username, email) ==
    [user EXCEPT !.username = IF username = Absent THEN @ ELSE username,
                 !.email = IF email = Absent THEN @ ELSE Lower(email),
                 !.isVerified = IF email = Absent THEN @ ELSE FALSE]

\* the document findByIdAndUpdate(userId, { $set: updateData }) writes
updatedUser(user, username, email) ==
    [user EXCEPT !.username = IF username = Absent THEN @ ELSE username,
                 !.email = IF email = Absent THEN @ ELSE Lower(email)]

\* await User.findByIdAndUpdate(...); a rejected update throws into catch
profileUpdate(q) ==
    LET u == inflight[q].user
        doc == updatedUser(users[u], inflight[q].username, inflight[q].email)
    IN
    /\ inflight[q].op = "updateProfile" /\ inflight[q].pc = "update"
    /\ IF uniqueIndexViolated(users, u, doc.username, doc.email)
       THEN /\ respond(q, Resp("updateProfile", 500, "Failed to update profile", u,
                                NoArg, NoToken, NoToken))
            /\ UNCHANGED users
       ELSE /\ users' = [users EXCEPT ![u] = doc]
            /\ respond(q, Resp("updateProfile", 200, "", u, NoArg, NoToken, NoToken))
    /\ UNCHANGED <<verifications, tokens, now, minted, resetCtr>>

NextConc ==
    \/ \E q \in Requests, username \in Usernames, email \in ConcEmails :
           beginSignup(q, username, email) /\ UNCHANGED others
    \/ \E q \in Requests : signupFindUsername(q) /\ UNCHANGED others
    \/ \E q \in Requests : signupFindEmail(q) /\ UNCHANGED others
    \/ \E q \in Requests : signupCreateUser(q) /\ UNCHANGED others
    \/ \E q \in Requests : signupFinish(q, [bytes |-> 3, v |-> 1], TRUE) /\ UNCHANGED others
    \/ \E q \in Requests, u \in DOMAIN users, username \in Usernames \cup {Absent},
          email \in ConcEmails \cup {Absent} :
           (username # Absent \/ email # Absent) /\ beginProfile(q, u, username, email)
           /\ UNCHANGED others
    \/ \E q \in Requests : profileFindUsername(q) /\ UNCHANGED others
    \/ \E q \in Requests : profileFindEmail(q) /\ UNCHANGED others
    \/ \E q \in Requests : profileUpdate(q) /\ UNCHANGED others

SpecConc == Init /\ [][NextConc]_vars

(************ every lifecycle operation and profile update *****************)
\* router.put('/profile', authenticate, ...) handled without interruption;
\* a is the access token presented
updateProfile(a, username, email) ==
    LET u == a.sub
        doc == updatedUser(users[u], username, email)
        answer ==
            IF username # Absent /\ (\E i \in DOMAIN users :
                                         i # u /\ users[i].username = username)
            THEN Resp("updateProfile", 400, "Username already taken", u, NoArg, NoToken, NoToken)
            ELSE IF email # Absent /\ (\E i \in DOMAIN users :
                                           i # u /\ users[i].email = Lower(email))
            THEN Resp("updateProfile", 400, "Email already taken", u, NoArg, NoToken, NoToken)
            ELSE IF uniqueIndexViolated(users, u, doc.username, doc.email)
            THEN Resp("updateProfile", 500, "Failed to update profile", u, NoArg, NoToken, NoToken)
            ELSE Resp("updateProfile", 200, "", u, NoArg, NoToken, NoToken)
    IN
    IF ~verifyAccessToken(a, now) THEN
        /\ resp' = Resp("updateProfile", 401, "Invalid or expired token", 0, NoArg, NoToken, NoToken)
        /\ UNCHANGED <<users, verifications, tokens, now, minted, resetCtr, inflight>>
    ELSE
        /\ resp' = answer
        /\ users' = IF answer.status = 200 THEN [users EXCEPT ![u] = doc] ELSE users
        /\ UNCHANGED <<verifications, tokens, now, minted, resetCtr, inflight>>

\* One account going through every lifecycle operation and changing its
\* profile.
NextFlag ==
    \/ \E c \in EmailCodes : signup("alice", "a@x.com", "Secret123!", c, TRUE) /\ UNCHANGED others
    \/ \E t \in TokenValues : verifyEmail(t) /\ UNCHANGED others
    \/ \E e \in Emails, c \in EmailCodes : resendVerificationCode(e, c, TRUE) /\ UNCHANGED others
    \/ \E id \in Usernames : login(id, "Secret123!") /\ UNCHANGED others
    \/ \E r \in minted : refreshToken(r) /\ UNCHANGED others
    \/ \E r \in minted : logout(r) /\ UNCHANGED others
    \/ \E a \in minted : logoutAll(a) /\ UNCHANGED others
    \/ \E e \in Emails : canReset(e, MaxResets) /\ generateResetToken(e) /\ UNCHANGED others
    \/ \E t \in TokenValues : resetPassword(t, "NewPassword123!") /\ UNCHANGED others
    \/ \E a \in minted, username \in {Absent, "bob"}, email \in {Absent, "B@x.com"} :
           (username # Absent \/ email # Absent) /\ updateProfile(a, username, email)
           /\ UNCHANGED others
    \/ Tick /\ UNCHANGED others
    \/ ttlVerifications /\ UNCHANGED others
    \/ ttlTokens /\ UNCHANGED others

SpecFlag == Init /\ [][NextFlag]_vars

(*************************** end-to-end flow *******************************)
\* The client keeps what the response to its request gave it.
answered(c) ==
    /\ client' = [c EXCEPT !.step = client.step + 1,
                           !.statuses = Append(client.statuses, resp'.status)]
    /\ UNCHANGED <<env, mailbox>>

\* POST /signup; the code reaches the client only in a dispatched mail
flowSignup ==
    /\ client.step = 0
    /\ \E c \in EmailCodes, sent \in BOOLEAN :
          /\ signup("alice", "a@x.com", "Secret123!", c, sent)
          /\ answered([client EXCEPT !.userId = resp'.user,
                                     !.code = IF sent THEN c ELSE NoArg])

\* POST /verify-email with the code of the mail
flowVerify ==
    /\ client.step = 1 /\ client.code # NoArg
    /\ verifyEmail(client.code)
    /\ answered(client)

\* POST /login; the client keeps both tokens
flowLogin ==
    /\ client.step = 2
    /\ login("alice", "Secret123!")
    /\ answered([client EXCEPT !.accessToken = resp'.accessToken,
                               !.refreshToken = resp'.refreshToken])

\* a protected request with Authorization: Bearer <accessToken>
flowProtected ==
    /\ client.step = 3
    /\ dashboard([scheme |-> "Bearer", credentials |-> client.accessToken], NoToken)
    /\ answered(client)

\* POST /refresh with the refresh token; POST /logout with it; POST /refresh
\* with it once more
flowRefresh ==
    /\ client.step \in {4, 6}
    /\ refreshToken(client.refreshToken)
    /\ answered([client EXCEPT !.accessToken = resp'.accessToken])

flowLogout ==
    /\ client.step = 5
    /\ logout(client.refreshToken)
    /\ answered(client)

\* bob registered and verified his address before the flow starts
InitFlow ==
    /\ client = NewClient
    /\ env = DefaultEnv
    /\ mailbox = NoMail
    /\ inflight = [q \in Requests |-> IdleReq]
    /\ users = <<[newUser("bob", "B@x.com", "Secret123!") EXCEPT !.isVerified = TRUE]>>
    /\ verifications = <<>>
    /\ tokens = <<>>
    /\ now = 0
    /\ minted = {}
    /\ resetCtr = 0
    /\ resp = Idle

\* bob's own tokens
tokensOf(sub) == {t \in minted : t.sub = sub}

\* The flow of one client, among the requests another account makes with
\* its own credentials.
NextFlow ==
    \/ flowSignup
    \/ flowVerify
    \/ flowLogin
    \/ flowProtected
    \/ flowRefresh
    \/ flowLogout
    \/ \E p \in Passwords : login("bob", p) /\ UNCHANGED others
    \/ \E r \in tokensOf(1) : refreshToken(r) /\ UNCHANGED others
    \/ \E r \in tokensOf(1) : logout(r) /\ UNCHANGED others
    \/ \E a \in tokensOf(1) : logoutAll(a) /\ UNCHANGED others
    \/ canReset("B@x.com", MaxResets) /\ generateResetToken("B@x.com") /\ UNCHANGED others
    \/ \E t \in ResetTokens, p \in Passwords : resetPassword(t, p) /\ UNCHANGED others

SpecFlow == InitFlow /\ [][NextFlow]_vars

(**************************** store failures *******************************)
\* A store access of an operation rejects. f numbers the accesses the
\* operation awaits, in the order of its code; the writes made before the
\* failing one stay.

\* mutant: Token.create of generateRefreshToken, which has no try block of
\* its own, not enclosed by the try block of login either
tryBlock_loginCreateOutside(op) ==
    IF op = "login" THEN {1} ELSE 1..4

\* the store accesses enclosed by the try block of the service method (for
\* refresh, logout and logoutAll: of the TokenService method it calls)
tryBlock(op) ==
    CASE op \in {"signup", "verifyEmail", "resetPassword"} -> 1..4
      [] op \in {"resendVerification", "forgotPassword"} -> 1..3
      [] op = "login" -> 1..2
      [] OTHER -> {1}

\* what the catch block of the service method makes the route answer
caughtStatus(op) ==
    CASE op \in {"signup", "verifyEmail", "resendVerification", "resetPassword"} -> 400
      [] op \in {"login", "refresh"} -> 401
      [] OTHER -> 200

caughtMessage(op) ==
    CASE op = "signup" -> "Registration failed"
      [] op = "verifyEmail" -> "Email verification failed"
      [] op = "resendVerification" -> "Failed to resend verification code"
      [] op = "login" -> "Login failed"
      [] op = "refresh" -> "Invalid refresh token"
      [] op = "logout" -> "Logout successful"
      [] op = "logoutAll" -> "Logged out from all devices"
      [] op = "forgotPassword" ->
           "If your email exists in our system, you will receive a password reset link"
      [] OTHER -> "Password reset failed"

\* what the catch block of the route answers when the service method raises
routeCatchStatus(op) == IF op = "forgotPassword" THEN 200 ELSE 500

routeCatchMessage(op) ==
    CASE op = "signup" -> "Registration failed"
      [] op = "verifyEmail" -> "Email verification failed"
      [] op = "resendVerification" -> "Failed to resend verification code"
      [] op = "login" -> "Login failed"
      [] op = "refresh" -> "Token refresh failed"
      [] op \in {"logout", "logoutAll"} -> "Logout failed"
      [] op = "forgotPassword" ->
           "If your email exists in our system, you will receive a password reset link"
      [] OTHER -> "Password reset failed"

\* the response to a request whose f-th store access failed; raised tells
\* that the service method threw to the route
failed(op, f) ==
    LET raised == f \notin tryBlock(op) IN
    resp' = [op |-> op,
             status |-> IF raised THEN routeCatchStatus(op) ELSE caughtStatus(op),
             message |-> IF raised THEN routeCatchMessage(op) ELSE caughtMessage(op),
             user |-> 0, arg |-> NoArg, password |-> "", verificationMail |-> "none",
             accessToken |-> NoToken, refreshToken |-> NoToken,
             failedAt |-> f, raised |-> raised]

\* signup: 1 User.findOne({username}), 2 User.findOne({email}),
\* 3 User.create, 4 Verification.create
signupFailing(username, email, password, f) ==
    /\ f \in 1..4
    /\ f >= 2 => findUserByUsername(users, username) = 0
    /\ f >= 3 => findUserByEmail(users, email) = 0
    /\ f = 4 => Len(users) < MaxUsers
    /\ users' = IF f = 4 THEN Append(users, newUser(username, email, password)) ELSE users
    /\ failed("signup", f)
    /\ UNCHANGED <<verifications, tokens, now, minted, resetCtr, inflight>>

\* verifyEmail: 1 Verification.findOne, 2 User.findById, 3 user.save,
\* 4 Verification.deleteOne
verifyEmailFailing(token, f) ==
    LET i == findVerification(verifications, token, EMAIL, now) IN
    /\ f \in 1..4
    /\ f >= 2 => i # 0
    /\ users' = IF f = 4 THEN [users EXCEPT ![verifications[i].userId].isVerified = TRUE]
                ELSE users
    /\ failed("verifyEmail", f)
    /\ UNCHANGED <<verifications, tokens, now, minted, resetCtr, inflight>>

\* resendVerificationCode: 1 User.findOne, 2 Verification.deleteMany,
\* 3 Verification.create
resendVerificationCodeFailing(email, f) ==
    LET u == findUserByEmail(users, email) IN
    /\ f \in 1..3
    /\ f >= 2 => u # 0 /\ ~users[u].isVerified
    /\ verifications' = IF f = 3 THEN deleteUserVerifications(verifications, u, EMAIL)
                        ELSE verifications
    /\ failed("resendVerification", f)
    /\ UNCHANGED <<users, tokens, now, minted, resetCtr, inflight>>

\* login: 1 User.findOne, 2 Token.create in generateRefreshToken
loginFailing(usernameOrEmail, password, f) ==
    LET u == findUserByUsernameOrEmail(users, usernameOrEmail) IN
    /\ f \in 1..2
    /\ f = 2 => loginCheck(users, u, password) = "Login successful"
    /\ failed("login", f)
    /\ UNCHANGED <<users, verifications, tokens, now, minted, resetCtr, inflight>>

\* refreshToken: 1 Token.findOne in verifyRefreshToken, reached by a token
\* that jwt.verify accepts
refreshTokenFailing(r) ==
    /\ jwtVerify(r, "refresh_secret", now) /\ r.type = "refresh"
    /\ failed("refresh", 1)
    /\ UNCHANGED <<users, verifications, tokens, now, minted, resetCtr, inflight>>

\* logout: 1 Token.deleteOne in deleteRefreshToken
logoutFailing(r) ==
    /\ failed("logout", 1)
    /\ UNCHANGED <<users, verifications, tokens, now, minted, resetCtr, inflight>>

\* logoutAll: 1 Token.deleteMany in deleteAllUserRefreshTokens, behind
\* authenticate
logoutAllFailing(a) ==
    /\ verifyAccessToken(a, now)
    /\ failed("logoutAll", 1)
    /\ UNCHANGED <<users, verifications, tokens, now, minted, resetCtr, inflight>>

\* generateResetToken: 1 User.findOne, 2 Verification.deleteMany,
\* 3 Verification.create
generateResetTokenFailing(email, f) ==
    LET u == findUserByEmail(users, email) IN
    /\ f \in 1..3
    /\ f >= 2 => u # 0
    /\ verifications' = IF f = 3
                        THEN deleteUserVerifications(verifications, u, PASSWORD_RESET)
                        ELSE verifications
    /\ failed("forgotPassword", f)
    /\ UNCHANGED <<users, tokens, now, minted, resetCtr, inflight>>

\* resetPassword: 1 Verification.findOne, 2 User.findById, 3 user.save,
\* 4 Verification.deleteOne
resetPasswordFailing(token, newPassword, f) ==
    LET i == findVerification(verifications, token, PASSWORD_RESET, now) IN
    /\ f \in 1..4
    /\ f >= 2 => i # 0
    /\ users' = IF f = 4 THEN [users EXCEPT ![verifications[i].userId].password =
                                   preSave(@, newPassword)]
                ELSE users
    /\ failed("resetPassword", f)
    /\ UNCHANGED <<verifications, tokens, now, minted, resetCtr, inflight>>

\* Every lifecycle operation, with and without a failing store access.
NextFail ==
    \/ \E f \in SignupForms, c \in EmailCodes, sent \in BOOLEAN :
           signup(f[1], f[2], "Secret123!", c, sent) /\ UNCHANGED others
    \/ \E t \in TokenValues : verifyEmail(t) /\ UNCHANGED others
    \/ \E e \in Emails, c \in EmailCodes, sent \in BOOLEAN :
           resendVerificationCode(e, c, sent) /\ UNCHANGED others
    \/ \E id \in Usernames : login(id, "Secret123!") /\ UNCHANGED others
    \/ \E r \in minted : refreshToken(r) /\ UNCHANGED others
    \/ \E r \in minted : logout(r) /\ UNCHANGED others
    \/ \E a \in minted : logoutAll(a) /\ UNCHANGED others
    \/ \E e \in Emails : canReset(e, MaxResets) /\ generateResetToken(e) /\ UNCHANGED others
    \/ \E t \in TokenValues : resetPassword(t, "NewPassword123!") /\ UNCHANGED others
    \/ \E u \in SignupForms, f \in 1..4 :
           signupFailing(u[1], u[2], "Secret123!", f) /\ UNCHANGED others
    \/ \E t \in TokenValues, f \in 1..4 : verifyEmailFailing(t, f) /\ UNCHANGED others
    \/ \E e \in Emails, f \in 1..3 : resendVerificationCodeFailing(e, f) /\ UNCHANGED others
    \/ \E id \in Usernames, p \in Passwords, f \in 1..2 :
           loginFailing(id, p, f) /\ UNCHANGED others
    \/ \E r \in minted : refreshTokenFailing(r) /\ UNCHANGED others
    \/ \E r \in minted : logoutFailing(r) /\ UNCHANGED others
    \/ \E a \in minted : logoutAllFailing(a) /\ UNCHANGED others
    \/ \E e \in Emails, f \in 1..3 : generateResetTokenFailing(e, f) /\ UNCHANGED others
    \/ \E t \in TokenValues, f \in 1..4 :
           resetPasswordFailing(t, "NewPassword123!", f) /\ UNCHANGED others

SpecFail == Init /\ [][NextFail]_vars

(******************* concurrent use of one ephemeral token *****************)
\* verifyEmail and resetPassword, one await per step. A request slot keeps
\* the token presented, the Verification document its findOne returned and,
\* once the call has returned, its result.
beginConsume(q, op, token) ==
    /\ inflight[q].pc \in {"idle", "done"}
    /\ inflight' = [inflight EXCEPT ![q] =
           [op |-> op, pc |-> "findOne", token |-> token, doc |-> 0, result |-> FALSE]]
    /\ UNCHANGED <<users, verifications, tokens, now, minted, resetCtr, resp>>

\* the call of request q returns ok and the route answers r
return(q, ok, r) ==
    /\ resp' = r
    /\ inflight' = [inflight EXCEPT ![q].pc = "done", ![q].result = ok]

consumeKind(op) == IF op = "verifyEmail" THEN EMAIL ELSE PASSWORD_RESET

consumeRefused(op, token) ==
    IF op = "verifyEmail"
    THEN Resp(op, 400, "Email verification failed", 0, token, NoToken, NoToken)
    ELSE Resp(op, 400, "Password reset failed", 0, token, NoToken, NoToken)

consumeDone(op, token, u) ==
    IF op = "verifyEmail"
    THEN Resp(op, 200, "Email verified successfully", u, token, NoToken, NoToken)
    ELSE Resp(op, 200, "Password reset successful", u, token, NoToken, NoToken)

\* await Verification.findOne({ token, type, expires: { $gt: new Date() } })
consumeFindOne(q) ==
    LET r == inflight[q]
        i == findVerification(verifications, r.token, consumeKind(r.op), now)
    IN
    /\ r.op \in {"verifyEmail", "resetPassword"} /\ r.pc = "findOne"
    /\ IF i = 0
       THEN return(q, FALSE, consumeRefused(r.op, r.token))
       ELSE /\ inflight' = [inflight EXCEPT ![q].pc = "findById",
                                            ![q].doc = verifications[i]]
            /\ UNCHANGED resp
    /\ UNCHANGED <<users, verifications, tokens, now, minted, resetCtr>>

\* await User.findById(verification.userId)
consumeFindById(q) ==
    LET r == inflight[q] IN
    /\ r.op \in {"verifyEmail", "resetPassword"} /\ r.pc = "findById"
    /\ IF r.doc.userId \notin DOMAIN users
       THEN return(q, FALSE, consumeRefused(r.op, r.token))
       ELSE goto(q, "save") /\ UNCHANGED resp
    /\ UNCHANGED <<users, verifications, tokens, now, minted, resetCtr>>

\* user.isVerified = true (user.password = newPassword); await user.save()
consumeSave(q, newPassword) ==
    LET r == inflight[q] IN
    /\ r.op \in {"verifyEmail", "resetPassword"} /\ r.pc = "save"
    /\ users' = IF r.op = "verifyEmail"
                THEN [users EXCEPT ![r.doc.userId].isVerified = TRUE]
                ELSE [users EXCEPT ![r.doc.userId].password = preSave(@, newPassword)]
    /\ goto(q, "deleteOne")
    /\ UNCHANGED <<verifications, tokens, now, minted, resetCtr, resp>>

\* await Verification.deleteOne({ _id: verification._id }), whose
\* deletedCount the code does not look at; return true
consumeDeleteOne(q) ==
    LET r == inflight[q] IN
    /\ r.op \in {"verifyEmail", "resetPassword"} /\ r.pc = "deleteOne"
    /\ verifications' = deleteAt(verifications,
                                 First({i \in DOMAIN verifications : verifications[i] = r.doc}))
    /\ return(q, TRUE, consumeDone(r.op, r.token, r.doc.userId))
    /\ UNCHANGED <<users, tokens, now, minted, resetCtr>>

\* One account, one verification code and one reset token at a time, and
\* verify-email and reset-password requests running concurrently.
NextOnce ==
    \/ \E c \in EmailCodes : signup("alice", "a@x.com", "Secret123!", c, TRUE) /\ UNCHANGED others
    \/ canReset("a@x.com", MaxResets) /\ generateResetToken("a@x.com") /\ UNCHANGED others
    \/ \E q \in Requests, t \in EmailCodes : beginConsume(q, "verifyEmail", t) /\ UNCHANGED others
    \/ \E q \in Requests, t \in ResetTokens :
           beginConsume(q, "resetPassword", t) /\ UNCHANGED others
    \/ \E q \in Requests : consumeFindOne(q) /\ UNCHANGED others
    \/ \E q \in Requests : consumeFindById(q) /\ UNCHANGED others
    \/ \E q \in Requests : consumeSave(q, "NewPassword123!") /\ UNCHANGED others
    \/ \E q \in Requests : consumeDeleteOne(q) /\ UNCHANGED others
    \/ Tick /\ UNCHANGED others

SpecOnce == Init /\ [][NextOnce]_vars

(*********************** concurrent resend requests ************************)
\* resendVerificationCode, one await per step.
beginResend(q, email) ==
    /\ inflight[q].pc = "idle"
    /\ inflight' = [inflight EXCEPT ![q] =
           [op |-> "resendVerification", pc |-> "findUser", username |-> "",
            email |-> email, user |-> 0]]
    /\ UNCHANGED <<users, verifications, tokens, now, minted, resetCtr, resp>>

resendRefused(u) ==
    Resp("resendVerification", 400, "Failed to resend verification code", u, NoArg,
         NoToken, NoToken)

\* await User.findOne({ email }); if (!user) ...; if (user.isVerified) ...
resendFindUser(q) ==
    LET u == findUserByEmail(users, inflight[q].email) IN
    /\ inflight[q].op = "resendVerification" /\ inflight[q].pc = "findUser"
    /\ IF u = 0 \/ users[u].isVerified
       THEN respond(q, resendRefused(0))
       ELSE /\ inflight' = [inflight EXCEPT ![q].pc = "deleteMany", ![q].user = u]
            /\ UNCHANGED resp
    /\ UNCHANGED <<users, verifications, tokens, now, minted, resetCtr>>

\* await Verification.deleteMany({ userId, type: EMAIL })
resendDeleteMany(q) ==
    /\ inflight[q].op = "resendVerification" /\ inflight[q].pc = "deleteMany"
    /\ verifications' = deleteUserVerifications(verifications, inflight[q].user, EMAIL)
    /\ goto(q, "create")
    /\ UNCHANGED <<users, tokens, now, minted, resetCtr, resp>>

\* crypto.randomBytes(3); await Verification.create({...})
resendCreate(q, code) ==
    /\ inflight[q].op = "resendVerification" /\ inflight[q].pc = "create"
    /\ verifications' = Append(verifications,
           [userId |-> inflight[q].user, type |-> EMAIL, token |-> code,
            expires |-> now + VERIFICATION_CODE_EXPIRES_IN])
    /\ goto(q, "send")
    /\ UNCHANGED <<users, tokens, now, minted, resetCtr, resp>>

\* await emailService.sendVerificationEmail(...); return emailSent
resendSend(q, sent) ==
    /\ inflight[q].op = "resendVerification" /\ inflight[q].pc = "send"
    /\ respond(q, IF sent
                  THEN [Resp("resendVerification", 200, "Verification code resent",
                             inflight[q].user, NoArg, NoToken, NoToken)
                            EXCEPT !.verificationMail = "sent"]
                  ELSE [resendRefused(inflight[q].user)
                            EXCEPT !.verificationMail = "failed"])
    /\ UNCHANGED <<users, verifications, tokens, now, minted, resetCtr>>

\* Two accounts; resend requests run concurrently, codes are consumed.
NextResend ==
    \/ \E f \in {<<"alice", "a@x.com">>, <<"bob", "B@x.com">>}, c \in EmailCodes :
           signup(f[1], f[2], "Secret123!", c, TRUE) /\ UNCHANGED others
    \/ \E q \in Requests, e \in Emails : beginResend(q, e) /\ UNCHANGED others
    \/ \E q \in Requests : resendFindUser(q) /\ UNCHANGED others
    \/ \E q \in Requests : resendDeleteMany(q) /\ UNCHANGED others
    \/ \E q \in Requests, c \in EmailCodes : resendCreate(q, c) /\ UNCHANGED others
    \/ \E q \in Requests : resendSend(q, TRUE) /\ UNCHANGED others
    \/ \E t \in EmailCodes : verifyEmail(t) /\ UNCHANGED others

SpecResend == Init /\ [][NextResend]_vars

(********************** username-or-email lookup ***************************)
\* UserSchema puts no pattern on username (trim, 3 to 30 characters): a
\* username may be the text of an email address.
LookupForms ==
    {<<"a@x.com", "B@x.com", "NewPassword123!">>, <<"alice", "a@x.com", "Secret123!">>}

LookupIds == {"alice", "a@x.com", "B@x.com"}

\* Accounts whose usernames may look like addresses sign up, verify and log
\* in by username or by email.
NextLookup ==
    \/ \E f \in LookupForms, c \in EmailCodes :
           signup(f[1], f[2], f[3], c, TRUE) /\ UNCHANGED others
    \/ \E t \in EmailCodes : verifyEmail(t) /\ UNCHANGED others
    \/ \E id \in LookupIds, p \in Passwords : login(id, p) /\ UNCHANGED others
    \/ \E r \in minted : logout(r) /\ UNCHANGED others
    \/ Tick /\ UNCHANGED others

SpecLookup == Init /\ [][NextLookup]_vars

(********************* lifetime of a refresh token *************************)
\* The lifetimes JWT_REFRESH_EXPIRES_IN may name: a number of minutes, hours
\* or days.
RefreshTtls == {[n |-> n, unit |-> u] : n \in 1..MaxTtl, u \in {"m", "h", "d"}}

\* expiresIn.endsWith('d') ? parseInt(expiresIn) * 24 * 60 * 60 * 1000
\*                         : parseInt(expiresIn) * 60 * 1000
expiresInMs(ttl) ==
    IF ttl.unit = "d" THEN ttl.n * 24 * 60 * 60 * 1000 ELSE ttl.n * 60 * 1000

\* the seconds jwt.sign adds to iat for options.expiresIn
expiresInSeconds(ttl) ==
    CASE ttl.unit = "m" -> ttl.n * 60
      [] ttl.unit = "h" -> ttl.n * 60 * 60
      [] OTHER -> ttl.n * 24 * 60 * 60

\* generateRefreshToken at Date.now() = t milliseconds: the signed token,
\* iat and exp in seconds, and the Token document with its expires date
refreshRecordAt(userId, username, ttl, t) ==
    [userId |-> userId,
     refreshToken |-> [sub |-> userId, username |-> username, type |-> "refresh",
                       key |-> "refresh_secret", iat |-> t \div 1000,
                       exp |-> (t \div 1000) + expiresInSeconds(ttl)],
     expires |-> t + expiresInMs(ttl)]

\* a configured lifetime, a verified user and a clock in milliseconds
InitTtl ==
    /\ client = NewClient
    /\ env \in {[JWT_REFRESH_EXPIRES_IN |-> ttl] : ttl \in RefreshTtls}
    /\ mailbox = NoMail
    /\ inflight = [q \in Requests |-> IdleReq]
    /\ users = <<[newUser("alice", "a@x.com", "Secret123!") EXCEPT !.isVerified = TRUE]>>
    /\ verifications = <<>>
    /\ tokens = <<>>
    /\ now \in {0, 1, 999}
    /\ minted = {}
    /\ resetCtr = 0
    /\ resp = Idle

\* login of the user, the refresh token signed and stored at this instant
loginAt ==
    LET rec == refreshRecordAt(1, users[1].username, env.JWT_REFRESH_EXPIRES_IN, now) IN
    /\ Len(tokens) < MaxSessions
    /\ tokens' = Append(tokens, rec)
    /\ minted' = minted \cup {rec.refreshToken}
    /\ resp' = Resp("login", 200, "Login successful", 1, NoArg, NoToken, rec.refreshToken)
    /\ UNCHANGED <<users, verifications, now, resetCtr, inflight>>

\* half a second passes
elapse ==
    /\ now + 500 <= MaxClock
    /\ now' = now + 500
    /\ resp' = Idle
    /\ UNCHANGED <<users, verifications, tokens, minted, resetCtr, inflight>>

NextTtl ==
    \/ loginAt /\ UNCHANGED others
    \/ elapse /\ UNCHANGED others

SpecTtl == InitTtl /\ [][NextTtl]_vars

(******************** where verification codes are mailed ******************)
\* sendVerificationEmail(email, username, token): the address the last code
\* of user u went to
mailed(u, email) ==
    [mailbox EXCEPT !.to = IF u > Len(mailbox.to) THEN Append(mailbox.to, Lower(email))
                           ELSE [mailbox.to EXCEPT ![u] = Lower(email)],
                    !.consumed = IF u > Len(mailbox.consumed)
                                 THEN Append(mailbox.consumed, {})
                                 ELSE mailbox.consumed]

mailSignup(username, email, password, code) ==
    /\ signup(username, email, password, code, TRUE)
    /\ mailbox' = IF resp'.status = 201 THEN mailed(resp'.user, email) ELSE mailbox
    /\ UNCHANGED <<client, env>>

mailResend(email, code) ==
    /\ resendVerificationCode(email, code, TRUE)
    /\ mailbox' = IF resp'.status = 200 THEN mailed(resp'.user, users[resp'.user].email)
                  ELSE mailbox
    /\ UNCHANGED <<client, env>>

\* the code consumed is the one last mailed to its owner
mailVerify(token) ==
    /\ verifyEmail(token)
    /\ mailbox' = IF resp'.status = 200
                  THEN [mailbox EXCEPT !.consumed[resp'.user] =
                            @ \cup {mailbox.to[resp'.user]}]
                  ELSE mailbox
    /\ UNCHANGED <<client, env>>

\* Two accounts signing up, verifying the address their code was mailed to,
\* logging in and changing their profile.
NextMail ==
    \/ \E f \in {<<"alice", "a@x.com">>, <<"bob", "B@x.com">>}, c \in EmailCodes :
           mailSignup(f[1], f[2], "Secret123!", c)
    \/ \E e \in Emails, c \in EmailCodes : mailResend(e, c)
    \/ \E t \in EmailCodes : mailVerify(t)
    \/ \E id \in Usernames : login(id, "Secret123!") /\ UNCHANGED others
    \/ \E a \in minted, email \in {"c@x.com", "B@x.com"} :
           updateProfile(a, Absent, email) /\ UNCHANGED others
    \/ Tick /\ UNCHANGED others

SpecMail == Init /\ [][NextMail]_vars

(********************* repeated forgot-password ****************************)
ForgotTokens == {[bytes |-> 32, v |-> k] : k \in 1..MaxForgot}

\* Two accounts asking for reset tokens again and again, and using them.
NextForgot ==
    \/ signup("alice", "a@x.com", "Secret123!", [bytes |-> 3, v |-> 1], TRUE) /\ UNCHANGED others
    \/ signup("bob", "B@x.com", "Secret123!", [bytes |-> 3, v |-> 2], TRUE) /\ UNCHANGED others
    \/ \E e \in Emails : canReset(e, MaxForgot) /\ generateResetToken(e) /\ UNCHANGED others
    \/ \E t \in ForgotTokens : resetPassword(t, "NewPassword123!") /\ UNCHANGED others
    \/ Tick /\ UNCHANGED others
    \/ ttlVerifications /\ UNCHANGED others

SpecForgot == Init /\ [][NextForgot]_vars

(********************* password reset, any new password ********************)
\* The strings a caller can present as a password: the plain passwords and
\* a string that reads like a stored verifier.
ResetPasswords == Passwords \cup {Hash("Secret123!")}

\* One account going through signup, verification, login, forgot-password
\* and reset-password, the passwords drawn from ResetPasswords.
NextReset ==
    \/ \E c \in EmailCodes : signup("alice", "a@x.com", "Secret123!", c, TRUE) /\ UNCHANGED others
    \/ \E t \in TokenValues : verifyEmail(t) /\ UNCHANGED others
    \/ \E p \in ResetPasswords : login("alice", p) /\ UNCHANGED others
    \/ \E e \in Emails : canReset(e, MaxResets) /\ generateResetToken(e) /\ UNCHANGED others
    \/ \E t \in TokenValues, p \in ResetPasswords : resetPassword(t, p) /\ UNCHANGED others
    \/ Tick /\ UNCHANGED others

SpecReset == Init /\ [][NextReset]_vars

(***************************************************************************)
(*                              Properties                                 *)
(***************************************************************************)
\* the refresh tokens issued so far to principal p
issuedRefreshTokens(p) == {r \in minted : r.type = "refresh" /\ r.sub = p}

\* RefreshAccessToken(r) would succeed in the current state
refreshable(r) == verifyRefreshToken(r, tokens, now)

\* the positions of the SessionToken records owned by principal p
sessionsOf(p) == {i \in DOMAIN tokens : tokens[i].userId = p}

\* C1: after a successful ResetPassword for principal p, no SessionToken
\* record owned by p remains in the store and every refresh token issued to
\* p before the reset fails RefreshAccessToken.
C1_ResetPasswordRevokesSessions ==
    (resp.op = "resetPassword" /\ resp.status = 200) =>
        /\ sessionsOf(resp.user) = {}
        /\ \A r \in issuedRefreshTokens(resp.user) : ~refreshable(r)

\* C2: for every refresh token r returned by a Login, after Logout(r)
\* RefreshAccessToken(r) fails, while every other refresh token of the same
\* principal that was refreshable before the Logout is still refreshable.
C2_LogoutRevokesExactlyThatToken ==
    [][\A r \in minted :
          (r.type = "refresh" /\ logout(r)) =>
              /\ ~verifyRefreshToken(r, tokens', now')
              /\ \A q \in issuedRefreshTokens(r.sub) :
                     (q # r /\ refreshable(q)) => verifyRefreshToken(q, tokens', now')]_vars

\* C3: after LogoutAll(p) completes, zero SessionToken records owned by p
\* remain and every refresh token issued to p before it fails
\* RefreshAccessToken.
C3_LogoutAllRevokesEverySession ==
    (resp.op = "logoutAll" /\ resp.status = 200) =>
        /\ sessionsOf(resp.user) = {}
        /\ \A r \in issuedRefreshTokens(resp.user) : ~refreshable(r)

\* C3 witness: LogoutAll has just succeeded for a principal that holds a
\* refresh token whose signature and embedded expiry still verify.
C3_Witness ==
    /\ resp.op = "logoutAll" /\ resp.status = 200
    /\ \E r \in issuedRefreshTokens(resp.user) : jwtVerify(r, "refresh_secret", now)

\* the positions of the Token records a refresh succeeds on: same string,
\* owned by the token's subject, expiry in the future
storedFor(r, store, t) ==
    {i \in DOMAIN store : /\ store[i].refreshToken = r
                           /\ store[i].userId = r.sub
                           /\ store[i].expires > t}

\* C4: RefreshAccessToken(r) succeeds if and only if r verifies as a signed,
\* unexpired kind=refresh token and the store holds a record with the same
\* string, owned by the token's subject, with expiry > now; deleting that
\* record makes the next RefreshAccessToken(r) fail although the signature
\* is still valid.
C4_RefreshNeedsSignatureAndRecord ==
    [][\A r \in minted :
          /\ refreshToken(r) =>
                 (resp'.status = 200 <=>
                     /\ jwtVerify(r, "refresh_secret", now)
                     /\ r.type = "refresh"
                     /\ storedFor(r, tokens, now) # {})
          /\ \A i \in storedFor(r, tokens, now) :
                 (tokens' = deleteAt(tokens, i) /\ now' = now) =>
                     ~verifyRefreshToken(r, tokens', now')]_vars

\* C5: VerifyEmail is one-shot: after VerifyEmail(c) has succeeded, a second
\* VerifyEmail(c) fails (no unexpired EMAIL_VERIFY record matches c).
C5_VerifyEmailOneShot ==
    (resp.op = "verifyEmail" /\ resp.status = 200) =>
        findVerification(verifications, resp.arg, EMAIL, now) = 0

\* the positions of the records of a kind that carry token value t
holders(t, type) ==
    {i \in DOMAIN verifications :
        verifications[i].token = t /\ verifications[i].type = type}

expiredHolders(t, type) ==
    {i \in holders(t, type) : verifications[i].expires <= now}

\* a request presenting t leaves the owner of every expired record that
\* carries t as it was and keeps the record; when only expired records carry
\* t the request is rejected and changes nothing
expiredRejected(t, type) ==
    /\ \A i \in expiredHolders(t, type) :
           /\ users'[verifications[i].userId] = users[verifications[i].userId]
           /\ \E j \in DOMAIN verifications' : verifications'[j] = verifications[i]
    /\ holders(t, type) = expiredHolders(t, type) =>
           /\ resp'.status = 400
           /\ users' = users
           /\ verifications' = verifications

\* C6: an EphemeralToken whose expiry is <= now is rejected by VerifyEmail and
\* by ResetPassword even when its record is still in the store; neither the
\* owner's verified flag nor its password verifier changes.
C6_ExpiredEphemeralTokenRejected ==
    [][/\ resp'.op = "verifyEmail" =>
              \A t \in TokenValues :
                  (expiredHolders(t, EMAIL) # {} /\ verifyEmail(t)) =>
                      expiredRejected(t, EMAIL)
       /\ resp'.op = "resetPassword" =>
              \A t \in TokenValues, p \in Passwords :
                  (expiredHolders(t, PASSWORD_RESET) # {} /\ resetPassword(t, p)) =>
                      expiredRejected(t, PASSWORD_RESET)]_vars

\* C6 witness: VerifyEmail has just rejected a code whose record, expired,
\* is still in the store.
C6_Witness ==
    /\ resp.op = "verifyEmail" /\ resp.status = 400
    /\ expiredHolders(resp.arg, EMAIL) # {}

\* C7: after ResendVerification(email) for an unverified principal, every
\* EMAIL_VERIFY code that principal held before the resend no longer
\* verifies, and only the newly issued code verifies the principal.
C7_ResendSupersedesOldCodes ==
    [][\A e \in Emails, c \in EmailCodes, sent \in BOOLEAN :
          LET u == findUserByEmail(users, e) IN
          (resendVerificationCode(e, c, sent) /\ u # 0 /\ ~users[u].isVerified) =>
              /\ \A i \in DOMAIN verifications :
                     (verifications[i].userId = u /\ verifications[i].type = EMAIL) =>
                         findVerification(verifications', verifications[i].token, EMAIL, now') = 0
              /\ \A t \in TokenValues :
                     LET j == findVerification(verifications', t, EMAIL, now') IN
                     (j # 0 /\ verifications'[j].userId = u) <=> t = c]_vars

\* C8: after every successful Signup the new principal has verified = false
\* and exactly one EMAIL_VERIFY EphemeralToken owned by it exists.
C8_SignupUnverifiedWithOneCode ==
    (resp.op = "signup" /\ resp.status = 201) =>
        /\ resp.user \in DOMAIN users
        /\ users[resp.user].isVerified = FALSE
        /\ Cardinality({i \in DOMAIN verifications :
               /\ verifications[i].userId = resp.user
               /\ verifications[i].type = EMAIL}) = 1

\* C8 witness: a second principal has just signed up while the first one's
\* record is in the store as well.
C8_Witness ==
    /\ resp.op = "signup" /\ resp.status = 201 /\ resp.user = 2
    /\ Len(verifications) >= 2

LoginIds == Usernames \cup Emails

\* C9: Login fails with EmailNotVerified for an unverified principal
\* presenting the correct password and with InvalidCredentials for a
\* verified principal presenting a wrong password; in both cases no token is
\* returned (nor minted, nor stored).
C9_LoginFailureKinds ==
    [][resp'.op = "login" =>
       \A id \in LoginIds, p \in Passwords :
          LET u == findUserByUsernameOrEmail(users, id) IN
          (u # 0 /\ login(id, p)) =>
              /\ (~users[u].isVerified /\ comparePassword(p, users[u].password)) =>
                     /\ resp'.status = 401 /\ resp'.message = "Email not verified"
                     /\ resp'.accessToken = NoToken /\ resp'.refreshToken = NoToken
                     /\ tokens' = tokens /\ minted' = minted
              /\ (users[u].isVerified /\ ~comparePassword(p, users[u].password)) =>
                     /\ resp'.status = 401 /\ resp'.message = "Invalid credentials"
                     /\ resp'.accessToken = NoToken /\ resp'.refreshToken = NoToken
                     /\ tokens' = tokens /\ minted' = minted]_vars

\* C9 witness: Login has just answered EmailNotVerified to an unverified
\* principal that presented its own password.
C9_Witness ==
    /\ resp.op = "login" /\ resp.message = "Email not verified"
    /\ resp.user # 0
    /\ ~users[resp.user].isVerified
    /\ comparePassword(resp.password, users[resp.user].password)

\* C10: Login fails with InvalidCredentials whenever no principal matches the
\* identifier or the password does not match the matched principal's
\* verifier, whether or not that principal is verified; EmailNotVerified is
\* returned only for a found, unverified principal whose password matched.
C10_WrongPasswordAlwaysInvalidCredentials ==
    resp.op = "login" =>
        /\ (resp.user = 0 \/ ~comparePassword(resp.password, users[resp.user].password)) =>
               resp.message = "Invalid credentials"
        /\ resp.message = "Email not verified" =>
               /\ resp.user # 0
               /\ ~users[resp.user].isVerified
               /\ comparePassword(resp.password, users[resp.user].password)

\* C10 as amended: Login fails with InvalidCredentials when no principal
\* matches the identifier, or when the matched principal is verified and the
\* password does not match; for a found, unverified principal it fails with
\* EmailNotVerified whether or not the password matches.
C10_VerifiedCheckedBeforePassword ==
    resp.op = "login" =>
        /\ resp.user = 0 =>
               (resp.status = 401 /\ resp.message = "Invalid credentials")
        /\ (resp.user # 0 /\ ~users[resp.user].isVerified) =>
               (resp.status = 401 /\ resp.message = "Email not verified")
        /\ (/\ resp.user # 0
            /\ users[resp.user].isVerified
            /\ ~comparePassword(resp.password, users[resp.user].password)) =>
               (resp.status = 401 /\ resp.message = "Invalid credentials")
        /\ resp.message = "Email not verified" =>
               (resp.user # 0 /\ ~users[resp.user].isVerified)

\* C10 witness: Login has just answered EmailNotVerified to an unverified
\* principal that presented a wrong password.
C10_Witness ==
    /\ resp.op = "login" /\ resp.message = "Email not verified"
    /\ resp.user # 0
    /\ ~comparePassword(resp.password, users[resp.user].password)

\* C11: after a successful ResetPassword(token, newPassword) for a verified
\* principal, Login with the old password fails and Login with newPassword
\* succeeds, for newPassword different from the old password.
C11_ResetPasswordReplacesPassword ==
    [][(resp'.op = "resetPassword" /\ resp'.status = 200) =>
       \A t \in TokenValues, p \in ResetPasswords :
          resetPassword(t, p) =>
              LET u == resp'.user IN
              \A old \in ResetPasswords :
                  (/\ users[u].isVerified
                   /\ comparePassword(old, users[u].password)
                   /\ old # p) =>
                      /\ loginCheck(users', u, p) = "Login successful"
                      /\ loginCheck(users', u, old) = "Invalid credentials"]_vars

\* C12: token kinds are not interchangeable: no token minted as kind=refresh
\* is accepted by access-token verification and no token minted as
\* kind=access is accepted by RefreshAccessToken.
C12_TokenKindsNotInterchangeable ==
    \A tok \in minted :
        /\ tok.type = "refresh" => ~verifyAccessToken(tok, now)
        /\ tok.type = "access" => ~verifyRefreshToken(tok, tokens, now)

\* C12 witness: a refresh token that refreshes and an access token that
\* passes the gate are both in circulation.
C12_Witness ==
    /\ \E r \in minted : r.type = "refresh" /\ refreshable(r)
    /\ \E a \in minted : a.type = "access" /\ verifyAccessToken(a, now)

\* C13: the Access Gate's decision for a presented token depends only on
\* the token, the access signing key and the current time: across every step
\* that leaves the clock alone (whatever it does to the stores: Logout,
\* LogoutAll, ResetPassword, ...) the gate gives the same result for the
\* same token.
C13_GateIgnoresStores ==
    [][now' = now =>
          \A a \in minted :
              (verifyAccessToken(a, now))' = verifyAccessToken(a, now)]_vars

\* C13 witness: LogoutAll has just deleted every session of a principal
\* whose access token the gate still accepts.
C13_Witness ==
    /\ resp.op = "logoutAll" /\ resp.status = 200
    /\ issuedRefreshTokens(resp.user) # {}
    /\ sessionsOf(resp.user) = {}
    /\ \E a \in minted :
           a.type = "access" /\ a.sub = resp.user /\ verifyAccessToken(a, now)

\* C14: at the Access Gate a Bearer authorization header, when present,
\* alone determines the outcome (a valid header token is accepted even with
\* an invalid cookie, an invalid one rejected even with a valid cookie); the
\* accessToken cookie is used only when no Bearer header is present; the
\* gate answers Unauthenticated only when no token is presented in either
\* place.
C14_HeaderBeforeCookie ==
    resp.op = "dashboard" =>
        /\ resp.header.scheme = "Bearer" =>
               /\ resp.status = 200 <=> verifyAccessToken(resp.header.credentials, now)
               /\ resp.status = 200 => resp.user = resp.header.credentials.sub
        /\ (resp.header.scheme # "Bearer" /\ resp.cookie # NoToken) =>
               /\ resp.status = 200 <=> verifyAccessToken(resp.cookie, now)
               /\ resp.status = 200 => resp.user = resp.cookie.sub
        /\ resp.message = "Authentication required" <=>
               (resp.header.scheme # "Bearer" /\ resp.cookie = NoToken)
        /\ resp.status # 200 =>
               resp.message \in {"Authentication required", "Invalid or expired token"}

\* C14 witness: a request with a valid Bearer token and an invalid cookie
\* has just been let through.
C14_Witness ==
    /\ resp.op = "dashboard" /\ resp.status = 200
    /\ resp.header.scheme = "Bearer"
    /\ resp.cookie # NoToken
    /\ ~verifyAccessToken(resp.cookie, now)

\* C15: ForgotPassword(email) reports the same success response to the
\* caller whether or not a principal with that email exists.
C15_ForgotPasswordSameResponse ==
    [][resp'.op = "forgotPassword" =>
       \A e \in Emails :
          generateResetToken(e) =>
              resp' = Resp("forgotPassword", 200,
                           "If your email exists in our system, you will receive a password reset link",
                           0, NoArg, NoToken, NoToken)]_vars

\* C15 witness: ForgotPassword has answered while one email has a principal
\* with a reset token issued and another email has no principal.
C15_Witness ==
    /\ resp.op = "forgotPassword"
    /\ \E e \in Emails : findUserByEmail(users, e) = 0
    /\ \E i \in DOMAIN verifications : verifications[i].type = PASSWORD_RESET

\* the positions of the PASSWORD_RESET records principal u owns in vs
resetRecordsOf(vs, u) ==
    {i \in DOMAIN vs : vs[i].userId = u /\ vs[i].type = PASSWORD_RESET}

\* C16: after ForgotPassword(email) completes for an existing principal,
\* every PASSWORD_RESET token issued to that principal earlier is gone and
\* no longer resets the password, and exactly one PASSWORD_RESET token
\* exists for that principal.
C16_ForgotPasswordSupersedes ==
    [][resp'.op = "forgotPassword" =>
       \A e \in Emails :
          LET u == findUserByEmail(users, e) IN
          (u # 0 /\ generateResetToken(e)) =>
              /\ \A i \in resetRecordsOf(verifications, u) :
                     /\ \A j \in DOMAIN verifications' :
                            verifications'[j].token # verifications[i].token
                     /\ findVerification(verifications', verifications[i].token,
                                         PASSWORD_RESET, now') = 0
              /\ Cardinality(resetRecordsOf(verifications', u)) = 1]_vars

\* C16 witness: the only principal has asked twice at the same instant and
\* has not reset its password: the first token was superseded.
C16_Witness ==
    /\ resp.op = "forgotPassword"
    /\ Len(users) = 1 /\ users[1].password = Hash("Secret123!")
    /\ resetCtr = 2 /\ now = 0
    /\ Cardinality(resetRecordsOf(verifications, 1)) = 1

\* C17: ResendVerification(email) returns failure, changes no store record
\* and dispatches no notification when no principal has that email or when
\* the principal is already verified.
C17_ResendRefusedIsNoOp ==
    [][resp'.op = "resendVerification" =>
       \A e \in Emails, c \in EmailCodes, sent \in BOOLEAN :
          LET u == findUserByEmail(users, e) IN
          ((u = 0 \/ users[u].isVerified) /\ resendVerificationCode(e, c, sent)) =>
              /\ resp'.status = 400
              /\ resp'.verificationMail = "none"
              /\ UNCHANGED <<users, verifications, tokens>>]_vars

\* C17 witness: ResendVerification has just been refused while every email
\* belongs to a verified principal (the refusal was for a verified one).
C17_Witness ==
    /\ resp.op = "resendVerification" /\ resp.status = 400
    /\ resp.verificationMail = "none"
    /\ \A e \in Emails :
           /\ findUserByEmail(users, e) # 0
           /\ users[findUserByEmail(users, e)].isVerified

\* C18: if notification dispatch fails during Signup, the Principal and its
\* EMAIL_VERIFY token remain persisted (no rollback), Signup still returns
\* the new principal id, and a ResendVerification for that principal is
\* accepted (the principal is found by its email and is unverified).
C18_SignupKeepsPrincipalWhenMailFails ==
    (resp.op = "signup" /\ resp.verificationMail = "failed") =>
        /\ resp.status = 201
        /\ resp.user \in DOMAIN users
        /\ \E i \in DOMAIN verifications :
               verifications[i].userId = resp.user /\ verifications[i].type = EMAIL
        /\ findUserByEmail(users, users[resp.user].email) = resp.user
        /\ ~users[resp.user].isVerified

\* C18 witness: a Signup whose verification email could not be sent has
\* just returned the new principal's id.
C18_Witness ==
    /\ resp.op = "signup" /\ resp.verificationMail = "failed"
    /\ resp.user \in DOMAIN users

\* C19: Signup with a username already held by a principal fails with
\* DuplicateUsername, and Signup with a free username but an email already
\* held fails with DuplicateEmail; in both cases no Principal and no
\* EphemeralToken is created and no notification is dispatched.
C19_SignupDuplicatesRefused ==
    [][resp'.op = "signup" =>
       \A f \in SignupForms, p \in SignupPasswords :
          LET nameHeld == findUserByUsername(users, f[1]) # 0
              emailHeld == \E i \in DOMAIN users : users[i].email = Lower(f[2])
          IN
          (nameHeld \/ emailHeld) =>
              \A c \in EmailCodes, sent \in BOOLEAN :
                  signup(f[1], f[2], p, c, sent) =>
                      /\ resp'.status = 400
                      /\ resp'.message = IF nameHeld THEN "Username already exists"
                                         ELSE "Email already exists"
                      /\ resp'.verificationMail = "none"
                      /\ UNCHANGED <<users, verifications>>]_vars

\* C19 witness: a Signup with a free username and a held email has just
\* been refused.
C19_Witness ==
    /\ resp.op = "signup" /\ resp.status = 400
    /\ resp.message = "Email already exists"
    /\ Len(users) = 1

\* C20: in every reachable state, under any interleaving of concurrent
\* Signup calls and profile-update calls, no two Principal records share a
\* username and no two share an email (emails compared case-insensitively).
C20_UsernamesAndEmailsUnique ==
    \A i \in DOMAIN users, j \in DOMAIN users :
        i # j => /\ users[i].username # users[j].username
                 /\ Lower(users[i].email) # Lower(users[j].email)

\* C20 witness: a Signup that had found its username and its email free
\* has just had its insert refused by the unique index, another request
\* still being in progress.
C20_Witness ==
    /\ resp.op = "signup" /\ resp.message = "Registration failed"
    /\ \E q \in Requests : inflight[q].pc # "idle"
    /\ Len(users) >= 1

\* C21: a principal's verified flag is false at creation and changes only
\* from false to true, and only inside a VerifyEmail call that found an
\* unexpired EMAIL_VERIFY token owned by that principal; no other operation
\* (profile update included) sets it back to false or sets it true.
C21_VerifiedOnlyByVerifyEmail ==
    [][/\ \A u \in DOMAIN users' :
              u \notin DOMAIN users => ~users'[u].isVerified
       /\ \A u \in DOMAIN users :
              users'[u].isVerified # users[u].isVerified =>
                  /\ ~users[u].isVerified /\ users'[u].isVerified
                  /\ resp'.op = "verifyEmail" /\ resp'.status = 200
                  /\ LET i == findVerification(verifications, resp'.arg, EMAIL, now) IN
                     /\ i # 0
                     /\ verifications[i].userId = u
                     /\ verifications[i].expires > now]_vars

\* C21 witness: a verified principal has just changed its email and is
\* still verified.
C21_Witness ==
    /\ resp.op = "updateProfile" /\ resp.status = 200
    /\ users[resp.user].email = "b@x.com"
    /\ users[resp.user].isVerified

\* C22: a successful Login adds exactly one SessionToken record (owner = the
\* logged-in principal, token string = the returned refresh token) and
\* changes nothing else; a failed Login changes no store; in neither case is
\* any EphemeralToken or Principal record created, modified or deleted.
C22_LoginFrame ==
    [][resp'.op = "login" =>
          /\ UNCHANGED <<users, verifications>>
          /\ IF resp'.status = 200
             THEN /\ Len(tokens') = Len(tokens) + 1
                  /\ SubSeq(tokens', 1, Len(tokens)) = tokens
                  /\ tokens'[Len(tokens')].userId = resp'.user
                  /\ tokens'[Len(tokens')].refreshToken = resp'.refreshToken
                  /\ resp'.refreshToken # NoToken
             ELSE UNCHANGED tokens]_vars

\* C22 witness: a Login has just succeeded for a principal that already had
\* a session, while an EphemeralToken record is in the store.
C22_Witness ==
    /\ resp.op = "login" /\ resp.status = 200
    /\ Cardinality(sessionsOf(resp.user)) = 2
    /\ verifications # <<>>

\* C23: RefreshAccessToken leaves the Session Token Store unchanged whether
\* it succeeds or fails (the refresh token is not rotated), so a refresh
\* token keeps succeeding for as long as its record is in the store and has
\* not expired.
C23_RefreshDoesNotRotate ==
    [][/\ resp'.op = "refresh" => UNCHANGED tokens
       /\ \A r \in minted :
              (r.type = "refresh" /\ storedFor(r, tokens', now') # {}) =>
                  verifyRefreshToken(r, tokens', now')]_vars

\* C24: Logout is idempotent: Logout(r) when no SessionToken record matches
\* r still reports success and changes no store, and applying Logout(r)
\* twice leaves the same state as applying it once (a second Logout(r)
\* right after the first finds nothing to delete).
C24_LogoutIdempotent ==
    [][resp'.op = "logout" =>
       \A r \in minted :
          logout(r) =>
              /\ resp'.status = 200
              /\ (\A i \in DOMAIN tokens : tokens[i].refreshToken # r) =>
                     UNCHANGED <<users, verifications, tokens>>
              /\ deleteRefreshToken(tokens', r) = tokens']_vars

\* C25: the end-to-end flow through the API (signup, verify-email with the
\* dispatched code, login, a protected request with the access token,
\* refresh, logout, refresh with the old refresh token) is answered 201 with
\* the user id, 200, 200 with an access and a refresh token, 200, 200 with a
\* new access token, 200 and 401.
FlowStatuses == <<201, 200, 200, 200, 200, 200, 401>>

C25_EndToEndFlow ==
    /\ client.step = Len(client.statuses) /\ client.step <= Len(FlowStatuses)
    /\ client.statuses = SubSeq(FlowStatuses, 1, client.step)
    /\ client.step >= 1 => client.userId \in DOMAIN users
                           /\ users[client.userId].username = "alice"
    /\ client.step >= 3 => /\ client.step < 7 => client.accessToken.type = "access"
                           /\ client.step < 7 => client.accessToken.sub = client.userId
                           /\ client.refreshToken.type = "refresh"
                           /\ client.refreshToken.sub = client.userId
    /\ client.step \in {5, 6} => verifyAccessToken(client.accessToken, now)
    /\ client.step = 7 => client.accessToken = NoToken

C25_Witness ==
    /\ client.step = 7
    /\ \E i \in DOMAIN tokens : tokens[i].userId = 1

\* the operations of the account lifecycle
LifecycleOps ==
    {"signup", "verifyEmail", "resendVerification", "login", "refresh", "logout",
     "logoutAll", "forgotPassword", "resetPassword"}

\* the last request met a failing store access
storeFailed == "failedAt" \in DOMAIN resp

\* C26: no lifecycle operation raises to its caller: whichever store access
\* of signup, verifyEmail, resendVerificationCode, login, refreshToken, logout,
\* logoutAll, generateResetToken or resetPassword fails, the operation
\* returns a result value.
C26_NoOperationRaises ==
    (storeFailed /\ resp.op \in LifecycleOps) => ~resp.raised

C26_Witness ==
    /\ storeFailed /\ resp.op = "login" /\ resp.failedAt = 2
    /\ ~resp.raised /\ resp.message = "Login failed"

\* C27: when a store operation fails inside Signup, VerifyEmail,
\* ResendVerification, Login, RefreshAccessToken or ResetPassword, the caller
\* receives a 500 response, not a 400 or a 401.
C27_StoreFailureAnswered500 ==
    (storeFailed /\ resp.op \in {"signup", "verifyEmail", "resendVerification", "login",
                                 "refresh", "resetPassword"})
        => resp.status = 500

\* C28: an ephemeral token is usable at most once under concurrency: of two
\* or more VerifyEmail calls (ResetPassword calls) that present the same
\* token value, in any interleaving, at most one succeeds.
C28_TokenUsedAtMostOnce ==
    \A q1 \in Requests, q2 \in Requests :
        (/\ q1 # q2
         /\ inflight[q1].pc = "done" /\ inflight[q2].pc = "done"
         /\ inflight[q1].op = inflight[q2].op
         /\ inflight[q1].token = inflight[q2].token)
            => ~(inflight[q1].result /\ inflight[q2].result)

\* C29: in every reachable state no two EphemeralToken records hold the same
\* token value; in particular two different principals never hold
\* outstanding EMAIL_VERIFY tokens with the same code.
C29_EphemeralTokenValuesUnique ==
    \A i \in DOMAIN verifications, j \in DOMAIN verifications :
        i # j => verifications[i].token # verifications[j].token

\* C30: in every reachable state no two SessionToken records hold the same
\* refresh-token string, two Logins of one principal at the same clock
\* instant included.
C30_RefreshStringsUnique ==
    \A i \in DOMAIN tokens, j \in DOMAIN tokens :
        i # j => tokens[i].refreshToken # tokens[j].refreshToken

\* C31: if VerifyEmail was interrupted after setting verified=true and
\* before deleting the token, a later VerifyEmail with the same unexpired
\* code returns success, leaves the principal verified, deletes the token and
\* changes no other principal or token.
C31_InterruptedVerifyEmailRepeatable ==
    [][(resp'.op = "verifyEmail" /\ "failedAt" \notin DOMAIN resp') =>
          \A i \in DOMAIN verifications :
              (/\ verifications[i].type = EMAIL
               /\ verifications[i].token = resp'.arg
               /\ verifications[i].expires > now
               /\ users[verifications[i].userId].isVerified)
                  => /\ resp'.status = 200
                     /\ users' = users
                     /\ verifications' = deleteAt(verifications, i)]_vars

\* C31 witness: a VerifyEmail has just succeeded for a principal that holds a
\* session, so one that an interrupted VerifyEmail had verified before.
C31_Witness ==
    /\ resp.op = "verifyEmail" /\ resp.status = 200 /\ "failedAt" \notin DOMAIN resp
    /\ \E i \in DOMAIN tokens : tokens[i].userId = resp.user
    /\ Len(users) = 2

\* the unexpired EMAIL_VERIFY records principal u holds
outstandingCodes(u) ==
    {i \in DOMAIN verifications : /\ verifications[i].userId = u
                                  /\ verifications[i].type = EMAIL
                                  /\ verifications[i].expires > now}

\* C32: when two ResendVerification calls for the same unverified principal
\* interleave so that two unexpired EMAIL_VERIFY tokens remain outstanding,
\* VerifyEmail with either code succeeds and verifies that principal.
C32_EitherDuplicateCodeVerifies ==
    [][(resp'.op = "verifyEmail" /\ verifyEmail(resp'.arg)) =>
          \A u \in DOMAIN users :
              (/\ ~users[u].isVerified
               /\ Cardinality(outstandingCodes(u)) = 2
               /\ \E i \in outstandingCodes(u) : verifications[i].token = resp'.arg)
                  => resp'.status = 200 /\ users'[u].isVerified]_vars

\* C33: resend is a working recovery path: from every reachable state in
\* which a principal is Unverified, ResendVerification followed by
\* VerifyEmail with the newly issued code before its expiry makes the
\* principal Verified (and so, under fairness of dispatch and of the verify
\* step, every unverified principal that keeps resending eventually becomes
\* Verified).
C33_ResendThenVerifyRecovers ==
    [][(/\ resp'.op = "verifyEmail"
        /\ resp.op = "resendVerification" /\ resp.status = 200
        /\ verifications # <<>>
        /\ verifications[Len(verifications)].userId = resp.user
        /\ verifications[Len(verifications)].expires > now
        /\ resp'.arg = verifications[Len(verifications)].token
        /\ verifyEmail(resp'.arg))
           => users'[resp.user].isVerified]_vars

\* C34: in every reachable state every SessionToken record is owned by a
\* principal whose verified flag is true: no sequence of operations creates a
\* session for an Unverified principal.
C34_SessionsOnlyForVerified ==
    \A i \in DOMAIN tokens :
        tokens[i].userId \in DOMAIN users /\ users[tokens[i].userId].isVerified

\* C34 witness: a Login with the right password has just been refused to an
\* unverified principal while another principal holds a session.
C34_Witness ==
    /\ resp.op = "login" /\ resp.message = "Email not verified"
    /\ comparePassword(resp.password, users[resp.user].password)
    /\ tokens # <<>>
    /\ \A i \in DOMAIN tokens : tokens[i].userId # resp.user

\* C35: every SessionToken record's owning principal id equals the subject
\* id embedded in its refresh-token string, and the access token returned by
\* RefreshAccessToken(r) carries exactly the subject id of r: no access token
\* for principal q comes from a refresh token issued to another principal p.
C35_RefreshKeepsSubject ==
    [][/\ \A i \in DOMAIN tokens' : tokens'[i].userId = tokens'[i].refreshToken.sub
       /\ (resp'.op = "refresh" /\ resp'.status = 200) =>
              \A r \in minted :
                  refreshToken(r) =>
                      /\ resp'.accessToken.sub = r.sub
                      /\ r \in issuedRefreshTokens(r.sub)]_vars

\* C35 witness: the second principal has just refreshed while the first one
\* holds a session as well.
C35_Witness ==
    /\ resp.op = "refresh" /\ resp.status = 200
    /\ resp.accessToken.sub = 2
    /\ \E i \in DOMAIN tokens : tokens[i].userId = 1
    /\ \E i \in DOMAIN tokens : tokens[i].userId = 2

\* C36: for every verified principal p, Login(p.email, pw) and
\* Login(p.username, pw) with pw matching p's verifier succeed and return p's
\* own id, whatever usernames and emails the other principals hold.
C36_LoginResolvesOwnPrincipal ==
    [][resp'.op = "login" =>
          \A id \in LookupIds :
              login(id, resp'.password) =>
                  \A u \in DOMAIN users :
                      (/\ users[u].isVerified
                       /\ id \in {users[u].username, users[u].email}
                       /\ comparePassword(resp'.password, users[u].password))
                          => resp'.status = 200 /\ resp'.user = u]_vars

\* C37: whenever Signup returns a failure result, no Principal created by
\* that call exists in the Credential Store: a failure of the
\* verification-token write after the Principal write leaves no Principal
\* without an EMAIL_VERIFY token behind a reported failure.
C37_FailedSignupLeavesNoPrincipal ==
    [][(resp'.op = "signup" /\ resp'.status # 201) => users' = users]_vars

\* C38: for every SessionToken record created by Login, the stored expiry
\* instant equals the expiry embedded in its signed refresh token, for every
\* refresh TTL configured as a number of minutes, hours or days.
C38_StoredExpiryEqualsEmbedded ==
    \A i \in DOMAIN tokens : tokens[i].expires = tokens[i].refreshToken.exp * 1000

\* the records of one kind, in their order
ofKind(vs, type) == SelectSeq(vs, LAMBDA v : v.type = type)

\* an unexpired record of this kind holds the token
holdsToken(type, token) ==
    \E i \in DOMAIN verifications : /\ verifications[i].type = type
                                    /\ verifications[i].token = token
                                    /\ verifications[i].expires > now

\* C39: ephemeral token kinds are isolated: VerifyEmail never accepts or
\* deletes a PASSWORD_RESET token, ResetPassword never accepts or deletes an
\* EMAIL_VERIFY token, ResendVerification leaves every PASSWORD_RESET token
\* unchanged, and ForgotPassword leaves every EMAIL_VERIFY token and the
\* verified flag unchanged.
C39_TokenKindsIsolated ==
    [][/\ resp'.op = "verifyEmail" =>
              /\ ofKind(verifications', PASSWORD_RESET) = ofKind(verifications, PASSWORD_RESET)
              /\ resp'.status = 200 => holdsToken(EMAIL, resp'.arg)
       /\ resp'.op = "resetPassword" =>
              /\ ofKind(verifications', EMAIL) = ofKind(verifications, EMAIL)
              /\ resp'.status = 200 => holdsToken(PASSWORD_RESET, resp'.arg)
       /\ resp'.op = "resendVerification" =>
              ofKind(verifications', PASSWORD_RESET) = ofKind(verifications, PASSWORD_RESET)
       /\ resp'.op = "forgotPassword" =>
              /\ ofKind(verifications', EMAIL) = ofKind(verifications, EMAIL)
              /\ \A u \in DOMAIN users : users'[u].isVerified = users[u].isVerified]_vars

\* C39 witness: a VerifyEmail presenting the value of an outstanding
\* PASSWORD_RESET token has just been refused, an EMAIL_VERIFY code being
\* outstanding as well.
C39_Witness ==
    /\ resp.op = "verifyEmail" /\ resp.status = 400
    /\ holdsToken(PASSWORD_RESET, resp.arg)
    /\ ofKind(verifications, EMAIL) # <<>>

\* C40: in every reachable state, a principal with verified=true holds as its
\* current email an address to which an EMAIL_VERIFY code was dispatched and
\* then consumed: the profile-update operation never leaves a verified
\* principal holding an email that was never verified.
C40_VerifiedEmailWasConfirmed ==
    \A u \in DOMAIN users :
        users[u].isVerified => users[u].email \in mailbox.consumed[u]

====
